---- MODULE Spec2Model ----
(***************************************************************************)
(* Model of package gendiff (chakrit/gendiff): Make builds an LCS table    *)
(* over a caller-supplied Interface and walks it backwards into a list of  *)
(* Diff records; Compact trims long Match records of such a list.          *)
(***************************************************************************)
EXTENDS Integers, Sequences, FiniteSets, TLC

\* ------------------------------------------------------------------ bounds
MaxLeft == 3
MaxRight == 3
MaxContextLen == 2
MaxRun == 3
MaxRecs == 4

\* ------------------------------------------------------------ Op constants
noOp == 0
Match == 1
Delete == 2
Insert == 3

VARIABLES
    llen,       \* iface.LeftLen()
    rlen,       \* iface.RightLen()
    eq,         \* iface.Equal as the set of index pairs <<l, r>> it accepts
    table,      \* the dynamic-programming table, table[l][r] a cell
    lidx, ridx, \* the cursors of the backward reconstruction
    lastdiff,   \* the record being accumulated by the record closure
    diffs,      \* the records collected so far (backwards)
    steps,      \* number of iterations of the reconstruction loop so far
    result,     \* the list returned by Make / handed to Compact
    contextLen, \* Compact's contextLen argument
    out,        \* Compact's return value: [nil, list]
    pc          \* position: "start", "walk", "panic", "made", "compacted"

vars == <<llen, rlen, eq, table, lidx, ridx, lastdiff, diffs, steps, result,
          contextLen, out, pc>>

\* ------------------------------------------------------------------ types
Diff(op, ls, le, rs, re) ==
    [Op |-> op, Lstart |-> ls, Lend |-> le, Rstart |-> rs, Rend |-> re]

cell(op, length) == [op |-> op, length |-> length]

\* Diff.Len
DiffLen(d) ==
    IF d.Op = Match THEN d.Lend - d.Lstart
    ELSE IF d.Op = Delete THEN d.Lend - d.Lstart
    ELSE IF d.Op = Insert THEN d.Rend - d.Rstart
    ELSE -1

\* iface.Equal(l, r)
Equal(l, r) == <<l, r>> \in eq

\* ---------------------------------------------------------- Make: the table
\* make([][]cell, llen+1) with rows make([]cell, rlen+1): all zero cells
ZeroTable ==
    [l \in 0..llen |-> [r \in 0..rlen |-> cell(noOp, 0)]]

\* BaseTable without the assignment of the start point table[0][0]
BaseTableNoStart ==
    [l \in 0..llen |-> [r \in 0..rlen |->
        IF l = 0 THEN cell(Insert, 0)
        ELSE IF r = 0 THEN cell(Delete, 0)
        ELSE ZeroTable[l][r]]]

\* BaseTable with the operations of the first row and column exchanged
BaseTableSwapped ==
    [l \in 0..llen |-> [r \in 0..rlen |->
        IF l = 0 /\ r = 0 THEN cell(Match, 0)
        ELSE IF l = 0 THEN cell(Delete, 0)
        ELSE IF r = 0 THEN cell(Insert, 0)
        ELSE ZeroTable[l][r]]]

\* the empty-string solutions written over the zero table
BaseTable ==
    [l \in 0..llen |-> [r \in 0..rlen |->
        IF l = 0 /\ r = 0 THEN cell(Match, 0)
        ELSE IF l = 0 THEN cell(Insert, 0)
        ELSE IF r = 0 THEN cell(Delete, 0)
        ELSE ZeroTable[l][r]]]

\* NewCell that follows the neighbour with the shorter subsequence
NewCellShorter(t, l, r) ==
    LET lcell  == t[l][r-1]
        rcell  == t[l-1][r]
        lrcell == t[l-1][r-1]
    IN  IF Equal(l-1, r-1) THEN cell(Match, lrcell.length + 1)
        ELSE IF lcell.length > rcell.length THEN cell(Delete, rcell.length)
        ELSE cell(Insert, lcell.length)

\* NewCell that resolves a tie of the two neighbours as Delete
NewCellTieDelete(t, l, r) ==
    LET lcell  == t[l][r-1]
        rcell  == t[l-1][r]
        lrcell == t[l-1][r-1]
    IN  IF Equal(l-1, r-1) THEN cell(Match, lrcell.length + 1)
        ELSE IF lcell.length <= rcell.length THEN cell(Delete, rcell.length)
        ELSE cell(Insert, lcell.length)

\* the switch of the fill loop at position (l, r)
NewCell(t, l, r) ==
    LET lcell  == t[l][r-1]
        rcell  == t[l-1][r]
        lrcell == t[l-1][r-1]
    IN  IF Equal(l-1, r-1) THEN cell(Match, lrcell.length + 1)
        ELSE IF lcell.length < rcell.length THEN cell(Delete, rcell.length)
        ELSE IF lcell.length >= rcell.length THEN cell(Insert, lcell.length)
        ELSE t[l][r]

\* the inner loop: row l of the table from column r on
RECURSIVE FillRow(_, _, _)
FillRow(t, l, r) ==
    IF r \notin DOMAIN t[l] THEN t
    ELSE FillRow([t EXCEPT ![l][r] = NewCell(t, l, r)], l, r+1)

\* the outer loop: rows l..llen
RECURSIVE FillFrom(_, _)
FillFrom(t, l) ==
    IF l \notin DOMAIN t THEN t
    ELSE FillFrom(FillRow(t, l, 1), l+1)

FilledTable == FillFrom(BaseTable, 1)

\* ------------------------------------------------- Make: the reconstruction
\* lastdiff as declared before the loop
FirstDiff(t) == Diff(t[llen][rlen].op, llen, llen, rlen, rlen)

\* the record closure: the new <<lastdiff, diffs>>
record(op, l, r, ld, ds) ==
    LET moved == [ld EXCEPT !.Lstart = l, !.Rstart = r]
    IN  IF op # moved.Op
        THEN [lastdiff |-> Diff(op, l, l, r, r), diffs |-> Append(ds, moved)]
        ELSE [lastdiff |-> moved, diffs |-> ds]

\* Move whose Match case steps the left cursor only
MoveMatchLeftOnly(op, l, r) ==
    IF op = Match THEN [ok |-> TRUE, l |-> l-1, r |-> r]
    ELSE IF op = Delete THEN [ok |-> TRUE, l |-> l-1, r |-> r]
    ELSE IF op = Insert THEN [ok |-> TRUE, l |-> l, r |-> r-1]
    ELSE [ok |-> FALSE, l |-> l, r |-> r]

\* the cursor move of the switch in the loop; "ok" is FALSE on the panic branch
Move(op, l, r) ==
    IF op = Match THEN [ok |-> TRUE, l |-> l-1, r |-> r-1]
    ELSE IF op = Delete THEN [ok |-> TRUE, l |-> l-1, r |-> r]
    ELSE IF op = Insert THEN [ok |-> TRUE, l |-> l, r |-> r-1]
    ELSE [ok |-> FALSE, l |-> l, r |-> r]

\* Reverse that returns the records as collected
ReverseOmitted(s) == s

\* revdiffs
Reverse(s) == [i \in 1..Len(s) |-> s[Len(s) - i + 1]]

\* -------------------------------------------------------------- Compact
prefix(match, k) ==
    Diff(Match, match.Lstart, match.Lstart + k, match.Rstart, match.Rstart + k)

\* suffix that trims the left range only
suffixLeftOnly(match, k) ==
    Diff(Match, match.Lend - k, match.Lend, match.Rstart, match.Rend)

suffix(match, k) ==
    Diff(Match, match.Lend - k, match.Lend, match.Rend - k, match.Rend)

\* CompactMiddle that splits at contextLen instead of twice contextLen
RECURSIVE CompactMiddleSingle(_, _, _, _)
CompactMiddleSingle(middle, i, k, acc) ==
    IF i > Len(middle) THEN acc
    ELSE LET d == middle[i]
         IN  IF d.Op = Match /\ DiffLen(d) > k
             THEN CompactMiddleSingle(middle, i+1, k, acc \o <<prefix(d, k), suffix(d, k)>>)
             ELSE CompactMiddleSingle(middle, i+1, k, Append(acc, d))

\* the "in-between elems" loop over middle, appending to acc
RECURSIVE CompactMiddle(_, _, _, _)
CompactMiddle(middle, i, k, acc) ==
    IF i > Len(middle) THEN acc
    ELSE LET d == middle[i]
         IN  IF d.Op = Match /\ DiffLen(d) > k * 2
             THEN CompactMiddle(middle, i+1, k, acc \o <<prefix(d, k), suffix(d, k)>>)
             ELSE CompactMiddle(middle, i+1, k, Append(acc, d))

Slice(ds) == [nil |-> FALSE, list |-> ds]
Nil == [nil |-> TRUE, list |-> <<>>]

\* case 1 of the switch that returns the list as it is
CompactOneKept(ds) == Slice(ds)

\* case 1 of the switch on len(diffs)
CompactOne(ds) ==
    IF ds[1].Op = Match THEN Nil ELSE Slice(ds)

\* case 2 of the switch on len(diffs)
CompactTwo(ds, k) ==
    IF ds[1].Op = Match /\ DiffLen(ds[1]) > k
    THEN Slice(<<suffix(ds[1], k), ds[2]>>)
    ELSE IF ds[2].Op = Match /\ DiffLen(ds[2]) > k
    THEN Slice(<<ds[1], prefix(ds[2], k)>>)
    ELSE Slice(ds)

\* len(diffs) >= 3: first, middle and last
CompactMany(ds, k) ==
    LET first  == ds[1]
        middle == SubSeq(ds, 2, Len(ds) - 1)
        last   == ds[Len(ds)]
        o1 == IF first.Op = Match /\ DiffLen(first) > k
              THEN <<suffix(first, k)>> ELSE <<first>>
        o2 == CompactMiddle(middle, 1, k, o1)
        o3 == IF last.Op = Match /\ DiffLen(last) > k
              THEN Append(o2, prefix(last, k)) ELSE Append(o2, last)
    IN  Slice(o3)

Compact(ds, k) ==
    IF Len(ds) = 0 THEN Slice(ds)
    ELSE IF Len(ds) = 1 THEN CompactOne(ds)
    ELSE IF Len(ds) = 2 THEN CompactTwo(ds, k)
    ELSE CompactMany(ds, k)

\* ------------------------------------------------------------------ inputs
\* testcase.Equal: the bytes at l and r are the same
EqOf(left, right) ==
    {p \in (0..Len(left)-1) \X (0..Len(right)-1) : left[p[1]+1] = right[p[2]+1]}

\* the left/right strings of `cases` (TestMake)
cases ==
    {
      <<<<"a">>,
        <<>>>>,
      <<<<>>,
        <<"a">>>>,
      <<<<"a", "a", "a">>,
        <<"b", "b", "b">>>>,
      <<<<"a", "B", "c", "e">>,
        <<"a", "c", "D", "e">>>>,
      <<<<"a", "B", "a", "C", "a">>,
        <<"a", "C", "a", "B", "a">>>>,
      <<<<"a", "a", "a", "b", "b", "b", "c", "c", "c", "e", "e", "e">>,
        <<"a", "a", "a", "c", "c", "c", "D", "D", "D", "e", "e", "e">>>>,
      <<<<"b", "b", "b", "C", "C", "C", "d", "d", "d">>,
        <<"C", "C", "C", "e", "e", "e">>>>,
      <<<<"A", "b", "b", "b", "b", "b", "b", "b", "C", "d", "d", "d", "d", "d", "d", "d", "E">>,
        <<"b", "b", "b", "b", "b", "b", "b", "d", "d", "d", "d", "d", "d", "d">>>> }

\* the left/right strings of `compactCases` (TestCompact)
compactCases ==
    {
      <<<<"a", "b", "c">>,
        <<"a", "b", "c">>>>,
      <<<<"a", "b", "c", "d", "e", "f">>,
        <<"a", "b", "c", "d", "e", "f">>>>,
      <<<<"d", "d", "d", "m", "m", "m", "m">>,
        <<"m", "m", "m", "m">>>>,
      <<<<"m", "m", "m", "m">>,
        <<"m", "m", "m", "m", "d", "d", "d">>>>,
      <<<<"a", "B", "a", "C", "a">>,
        <<"a", "C", "a", "B", "a">>>>,
      <<<<"a", "x", "x", "x", "x", "x", "x", "x">>,
        <<"x", "x", "x", "x", "x", "x", "x">>>>,
      <<<<"x", "x", "x", "x", "x", "x", "x">>,
        <<"x", "x", "x", "x", "x", "x", "x", "b">>>>,
      <<<<"l", "l", "l", "l", "l", "l", "l", "a", "a", "a", "r", "r", "r", "r", "r", "r", "r">>,
        <<"l", "l", "l", "l", "l", "l", "l", "r", "r", "r", "r", "r", "r", "r">>>>,
      <<<<"a", "b", "b", "b", "b", "b", "b", "b", "c", "d", "d", "d", "d", "d", "d", "d", "e">>,
        <<"b", "b", "b", "b", "b", "b", "b", "d", "d", "d", "d", "d", "d", "d">>>> }

TestInputs == cases \cup compactCases

\* the state before Make / Compact has run
Idle ==
    /\ table = <<>>
    /\ lidx = 0 /\ ridx = 0
    /\ lastdiff = Diff(noOp, 0, 0, 0, 0)
    /\ diffs = <<>>
    /\ steps = 0
    /\ contextLen = 0
    /\ out = Slice(<<>>)

\* an Interface implementation: any Equal over lengths within the bounds, or
\* one of the string comparisons of the test suite
Init ==
    /\ \/ \E nl \in 0..MaxLeft, nr \in 0..MaxRight :
            \E e \in SUBSET ((0..nl-1) \X (0..nr-1)) :
                llen = nl /\ rlen = nr /\ eq = e
       \/ \E tc \in TestInputs :
            llen = Len(tc[1]) /\ rlen = Len(tc[2]) /\ eq = EqOf(tc[1], tc[2])
    /\ Idle
    /\ result = <<>>
    /\ pc = "start"

\* ----------------------------------------------------------------- actions
\* Make, up to the start of the reconstruction loop
BuildTable ==
    /\ pc = "start"
    /\ table' = FilledTable
    /\ lastdiff' = FirstDiff(table')
    /\ diffs' = <<>>
    /\ lidx' = llen /\ ridx' = rlen
    /\ pc' = "walk"
    /\ UNCHANGED <<llen, rlen, eq, steps, result, contextLen, out>>

\* one iteration of `for lidx > 0 || ridx > 0`; an index outside the table
\* or an unrecognised operation panics
WalkStep ==
    /\ pc = "walk"
    /\ lidx > 0 \/ ridx > 0
    /\ IF lidx \in 0..llen /\ ridx \in 0..rlen
       THEN LET c == table[lidx][ridx]
                rec == record(c.op, lidx, ridx, lastdiff, diffs)
                mv == Move(c.op, lidx, ridx)
            IN  /\ lastdiff' = rec.lastdiff
                /\ diffs' = rec.diffs
                /\ lidx' = mv.l /\ ridx' = mv.r
                /\ pc' = IF mv.ok THEN "walk" ELSE "panic"
       ELSE /\ pc' = "panic"
            /\ UNCHANGED <<lastdiff, diffs, lidx, ridx>>
    /\ steps' = steps + 1
    /\ UNCHANGED <<llen, rlen, eq, table, result, contextLen, out>>

\* the loop has ended: the eof record, the reversal and the return
Finish ==
    /\ pc = "walk"
    /\ ~(lidx > 0 \/ ridx > 0)
    /\ LET rec == record(noOp, 0, 0, lastdiff, diffs)
       IN  /\ lastdiff' = rec.lastdiff
           /\ diffs' = rec.diffs
           /\ result' = Reverse(rec.diffs)
    /\ pc' = "made"
    /\ UNCHANGED <<llen, rlen, eq, table, lidx, ridx, steps, contextLen, out>>

\* Compact(result, k)
DoCompact ==
    /\ pc = "made"
    /\ \E k \in 0..MaxContextLen :
        /\ contextLen' = k
        /\ out' = Compact(result, k)
    /\ pc' = "compacted"
    /\ UNCHANGED <<llen, rlen, eq, table, lidx, ridx, lastdiff, diffs, steps, result>>

Next == BuildTable \/ WalkStep \/ Finish \/ DoCompact

\* Compact(Make(iface), k), as TestCompact calls them
Spec == Init /\ [][Next]_vars

\* ------------------------------------------- Compact on a list of its own
Ops == {Match, Delete, Insert}

\* the records of a script given as runs <<op, length>>, starting at (l, r)
RECURSIVE Script(_, _, _, _)
Script(runs, i, l, r) ==
    IF i > Len(runs) THEN <<>>
    ELSE LET op == runs[i][1]
             n  == runs[i][2]
             le == IF op = Insert THEN l ELSE l + n
             re == IF op = Delete THEN r ELSE r + n
         IN  <<Diff(op, l, le, r, re)>> \o Script(runs, i+1, le, re)

\* the example of Compact's documentation: MMMMIIIMMMMDDDMMMM
DocExample ==
    <<<<Match, 4>>, <<Insert, 3>>, <<Match, 4>>, <<Delete, 3>>, <<Match, 4>>>>

InitCompact ==
    /\ \/ \E n \in 0..MaxRecs :
            \E runs \in [1..n -> Ops \X (1..MaxRun)] :
                result = Script(runs, 1, 0, 0)
       \/ result = Script(DocExample, 1, 0, 0)
    /\ llen = 0 /\ rlen = 0 /\ eq = {}
    /\ Idle
    /\ pc = "made"

NextCompact == DoCompact

SpecCompact == InitCompact /\ [][NextCompact]_vars

\* ============================================================= properties
\* helpers of the properties
Max(S) == CHOOSE x \in S : \A y \in S : y <= x

RECURSIVE SumLens(_, _)
SumLens(ds, i) ==
    IF i > Len(ds) THEN 0
    ELSE (IF ds[i].Op = Match THEN ds[i].Lend - ds[i].Lstart ELSE 0) + SumLens(ds, i+1)

\* the length of a longest chain of eq: pairs strictly increasing in both
\* coordinates. A triple <<l, r, n>> of best says that the longest chain
\* ending in pair <<l, r>> has n pairs; rows are settled in ascending order,
\* so a pair only extends pairs of earlier rows.
RECURSIVE ChainBest(_, _)
ChainBest(best, l) ==
    IF l >= llen THEN best
    ELSE ChainBest(best \cup
            {<<p[1], p[2], 1 + Max({0} \cup {q[3] : q \in {x \in best : x[2] < p[2]}})>> :
                p \in {x \in eq : x[1] = l}}, l+1)

LongestChain ==
    Max({0} \cup {q[3] : q \in ChainBest({}, 0)})

\* what replaying a script reads: <<"L", l>> copies left element l (Match),
\* <<"R", r>> takes right element r (Insert); Delete contributes nothing
RECURSIVE Replay(_, _)
Replay(ds, i) ==
    IF i > Len(ds) THEN <<>>
    ELSE LET d == ds[i]
             part == IF d.Op = Match
                     THEN [n \in 1..(d.Lend - d.Lstart) |-> <<"L", d.Lstart + n - 1>>]
                     ELSE IF d.Op = Insert
                     THEN [n \in 1..(d.Rend - d.Rstart) |-> <<"R", d.Rstart + n - 1>>]
                     ELSE <<>>
         IN  part \o Replay(ds, i+1)

\* the left elements a replay walks over (copied by Match, skipped by Delete)
RECURSIVE LeftRead(_, _)
LeftRead(ds, i) ==
    IF i > Len(ds) THEN <<>>
    ELSE LET d == ds[i]
             part == IF d.Op \in {Match, Delete}
                     THEN [n \in 1..(d.Lend - d.Lstart) |-> d.Lstart + n - 1]
                     ELSE <<>>
         IN  part \o LeftRead(ds, i+1)

\* C1: the list returned by Make is a well-formed edit script: it starts at
\* (0,0), ends at (NL,NR), each record starts where the previous one ended on
\* both axes, ranges run forwards, and no two consecutive records share an Op.
C1_WellFormedScript ==
    pc = "made" =>
        /\ Len(result) = 0 => (llen = 0 /\ rlen = 0)
        /\ Len(result) > 0 =>
            /\ result[1].Lstart = 0 /\ result[1].Rstart = 0
            /\ result[Len(result)].Lend = llen /\ result[Len(result)].Rend = rlen
        /\ \A i \in 1..Len(result) :
            /\ result[i].Lstart <= result[i].Lend
            /\ result[i].Rstart <= result[i].Rend
        /\ \A i \in 1..(Len(result) - 1) :
            /\ result[i].Lend = result[i+1].Lstart
            /\ result[i].Rend = result[i+1].Rstart
            /\ result[i].Op # result[i+1].Op

C1_Witness ==
    /\ pc = "made"
    /\ Len(result) >= 3
    /\ llen = MaxLeft /\ rlen = MaxRight

\* C2: replaying Make's script over the left sequence yields the right
\* sequence: Match records are as long on the right as on the left and pair
\* equal elements, Delete records are empty on the right, Insert records are
\* empty on the left, and the replayed elements are, position by position,
\* the right element itself or a left element Equal to it.
C2_ReplayYieldsRight ==
    pc = "made" =>
        /\ \A i \in 1..Len(result) :
            LET d == result[i]
            IN  /\ d.Op = Match =>
                    /\ d.Lend - d.Lstart = d.Rend - d.Rstart
                    /\ \A n \in 0..(d.Lend - d.Lstart - 1) :
                            Equal(d.Lstart + n, d.Rstart + n)
                /\ d.Op = Delete => d.Rstart = d.Rend
                /\ d.Op = Insert => d.Lstart = d.Lend
        /\ LET rep == Replay(result, 1)
           IN  /\ Len(rep) = rlen
               /\ \A j \in 1..Len(rep) :
                    \/ rep[j] = <<"R", j-1>>
                    \/ rep[j][1] = "L" /\ Equal(rep[j][2], j-1)
        /\ LeftRead(result, 1) = [n \in 1..llen |-> n-1]

C2_Witness ==
    /\ pc = "made"
    /\ \E i, j, k \in 1..Len(result) :
        /\ result[i].Op = Match /\ result[i].Lend - result[i].Lstart >= 2
        /\ result[j].Op = Delete
        /\ result[k].Op = Insert

\* C3: the Match records of Make's result add up to the length of a longest
\* common subsequence under Equal.
C3_MatchesAreLongest ==
    pc = "made" => SumLens(result, 1) = LongestChain

C3_Witness ==
    /\ pc = "made"
    /\ LongestChain = 2
    /\ Cardinality(eq) >= 4
    /\ llen = MaxLeft /\ rlen = MaxRight

\* the comparison of "aBaCa" with "aCaBa"
IsTieBreakCase ==
    /\ llen = 5 /\ rlen = 5
    /\ eq = EqOf(<<"a", "B", "a", "C", "a">>, <<"a", "C", "a", "B", "a">>)

C5_EmptyGivesNoRecords ==
    (pc = "made" /\ llen = 0 /\ rlen = 0) => Len(result) = 0

\* C5 (amended): Make on two empty sequences returns exactly one record, the
\* zero-length Match {Match, 0, 0, 0, 0}.
C5_EmptyGivesEmptyMatch ==
    (pc = "made" /\ llen = 0 /\ rlen = 0) => result = <<Diff(Match, 0, 0, 0, 0)>>

C5_Witness ==
    pc = "made" /\ llen = 0 /\ rlen = 0 /\ steps = 0

\* the comparison is of a sequence with itself: equal lengths, and every
\* element equals the element at its own index
IsSelfComparison ==
    /\ llen = rlen
    /\ \A i \in 0..(llen - 1) : Equal(i, i)

\* C6: comparing a sequence (the empty one included) with itself, Make yields
\* a single Match record over the whole sequence and Compact returns nil,
\* whatever the context length.
C6_SelfCompactIsNil ==
    (pc = "compacted" /\ IsSelfComparison) =>
        /\ result = <<Diff(Match, 0, llen, 0, rlen)>>
        /\ out.nil /\ out.list = <<>>

C6_Witness ==
    /\ pc = "compacted"
    /\ IsSelfComparison
    /\ llen = MaxLeft
    /\ contextLen = MaxContextLen

\* an interior Match record that Compact splits
IsSplit(ds, i, k) ==
    /\ i \in 2..(Len(ds) - 1)
    /\ ds[i].Op = Match
    /\ ds[i].Lend - ds[i].Lstart > 2 * k

\* where record i of a list of three or more records lands in the output
OutPos(ds, i, k) == i + Cardinality({j \in 2..(i-1) : IsSplit(ds, j, k)})

\* C7: in a script of three or more records every interior Match record longer
\* than 2k is replaced by two consecutive Match records, its first k and its
\* last k elements, and the gap between them is (length - 2k) on both axes.
C7_InteriorSplit ==
    (pc = "compacted" /\ Len(result) >= 3) =>
        \A i \in 2..(Len(result) - 1) :
            IsSplit(result, i, contextLen) =>
                LET d == result[i]
                    k == contextLen
                    p == OutPos(result, i, k)
                    n == d.Lend - d.Lstart
                IN  /\ p + 1 <= Len(out.list)
                    /\ out.list[p] =
                        Diff(Match, d.Lstart, d.Lstart + k, d.Rstart, d.Rstart + k)
                    /\ out.list[p+1] =
                        Diff(Match, d.Lend - k, d.Lend, d.Rend - k, d.Rend)
                    /\ out.list[p+1].Lstart - out.list[p].Lend = n - 2 * k
                    /\ out.list[p+1].Rstart - out.list[p].Rend = n - 2 * k

C7_Witness ==
    /\ pc = "compacted"
    /\ contextLen >= 1
    /\ Len(result) >= 4
    /\ IsSplit(result, 2, contextLen)
    /\ IsSplit(result, 3, contextLen)

\* C8: no Match record of Compact's output is longer than the context length.
C8_MatchesTrimmedToContext ==
    pc = "compacted" =>
        \A i \in 1..Len(out.list) :
            out.list[i].Op = Match => DiffLen(out.list[i]) <= contextLen

IsEdit(d) == d.Op \in {Delete, Insert}

\* C9: the Delete and Insert records of Compact's output are those of its
\* input, field for field and in the same order; an interior Match record no
\* longer than 2k is in the output unchanged; the input list is not modified.
C9_State ==
    pc = "compacted" =>
        /\ SelectSeq(out.list, IsEdit) = SelectSeq(result, IsEdit)
        /\ Len(result) >= 3 =>
            \A i \in 2..(Len(result) - 1) :
                (result[i].Op = Match /\ DiffLen(result[i]) <= 2 * contextLen) =>
                    /\ OutPos(result, i, contextLen) <= Len(out.list)
                    /\ out.list[OutPos(result, i, contextLen)] = result[i]

C10_WalkTerminates ==
    /\ pc # "panic"
    /\ pc = "walk" =>
        /\ lidx \in 0..llen /\ ridx \in 0..rlen
        /\ steps + lidx + ridx <= llen + rlen
        /\ (lidx > 0 \/ ridx > 0) =>
            LET op == table[lidx][ridx].op
            IN  /\ op \in {Match, Delete, Insert}
                /\ op = Match => (lidx > 0 /\ ridx > 0)
                /\ op = Delete => lidx > 0
                /\ op = Insert => ridx > 0
    /\ pc \in {"made", "compacted"} =>
        /\ lidx = 0 /\ ridx = 0
        /\ steps <= llen + rlen

C10_Witness ==
    /\ pc = "made"
    /\ llen = MaxLeft /\ rlen = MaxRight
    /\ steps = llen + rlen

====
